---- MODULE Spec2Model ----
(***************************************************************************)
(* Frame lifecycle of Aegis::Graphics::Renderer (renderer.cpp): the        *)
(* begin / execute / end state machine over MAX_FRAMES_IN_FLIGHT frame     *)
(* slots, swapchain recreation, the per-slot deferred deletion queue and   *)
(* the GPU that completes submitted command buffers asynchronously.        *)
(*                                                                         *)
(* The render thread is sequential: pc is its position.  A function of     *)
(* the source is cut into several actions only where it blocks (fence      *)
(* wait, image-in-flight wait, device idle wait, window event wait) or     *)
(* where control returns to a caller.                                      *)
(***************************************************************************)
EXTENDS Integers, Sequences, FiniteSets, TLC

\* Number of frame slots (declared in a header outside renderer.cpp).
MAX_FRAMES_IN_FLIGHT == 2

\* Bounds of the model.
MaxFrames == 3      \* submissions explored
NumImages == 2      \* presentable images of the swapchain
MaxPolls == 2       \* glfwWaitEvents rounds in one recreateSwapChain
MaxExtraTicks == 3  \* benchmarkFrameTimes calls explored after the capture window
MaxInits == 2       \* sceneInitialized calls explored

\* static constexpr size_t WARMUP_FRAMES / MEASURED_FRAMES of benchmarkFrameTimes.
WARMUP_FRAMES == 1000
MEASURED_FRAMES == 1000

Slots == 0 .. (MAX_FRAMES_IN_FLIGHT - 1)
Images == 0 .. (NumImages - 1)
NoSlot == MAX_FRAMES_IN_FLIGHT

\* Window extents <<width, height>>; an extent with a zero side is minimized.
Extents == { <<0, 0>>, <<0, 1080>>, <<1920, 1080>>, <<800, 600>> }
\* Mutant: the window counts as minimized only when both sides are zero.
IsMinimized_BothZero(e) == e[1] = 0 /\ e[2] = 0

\* while (extent.width == 0 || extent.height == 0)
IsMinimized(e) == e[1] = 0 \/ e[2] = 0
NonZeroExtents == { e \in Extents : e[1] > 0 /\ e[2] > 0 }

\* VkResult values of acquireNextImage / present that the renderer tells apart.
AcquireResults == { "VK_SUCCESS", "VK_SUBOPTIMAL_KHR", "VK_ERROR_OUT_OF_DATE_KHR", "VK_ERROR_OTHER" }
PresentResults == { "VK_SUCCESS", "VK_SUBOPTIMAL_KHR", "VK_ERROR_OUT_OF_DATE_KHR" }

VARIABLES
    pc,                   \* position of the render thread
    call,                 \* outermost Renderer method being executed
    renderLog,            \* what the running/last renderFrame has completed
    callLog,              \* operations of the running/last beginFrame or endFrame
    m_currentFrameIndex,
    m_isFrameStarted,
    fence,                \* m_frames[k].inFlightFence is signaled
    cmdState,             \* state of m_frames[k].commandBuffer
    gpuPending,           \* submissions the GPU has not completed
    submitted,            \* number of vkQueueSubmit calls so far
    currentImage,         \* swapchain: image index of the last acquire
    imagesInFlight,       \* swapchain: slot whose fence guards each image
    swapExtent,           \* swapchain extent
    notified,             \* last <<width, height>> passed to swapChainResized
    windowExtent,         \* m_window.extent()
    wasResized,           \* m_window.wasResized()
    recreateFrom,         \* caller of the running recreateSwapChain
    extent,               \* local variable extent of the running/last recreateSwapChain
    observed,             \* extents read so far by the running recreateSwapChain
    deletionQueue,        \* per slot: entries, each the number of endFrame
                          \* advances since it was enqueued
    flushed,              \* what the last flushDeletionQueue destroyed
    frameInfo,            \* FrameInfo handed to the last FrameGraph execute
    frameCount,           \* static frameCount of benchmarkFrameTimes
    samples,              \* the static timing vectors: the rows written so far,
                          \* each with the number of the call that wrote it
    files,                \* what has been written to frame_times.csv, in order
    lastSampleRegistry,   \* the registry as it was when the last row was captured
    m_drawBatchRegistry,  \* the three instance counts of the DrawBatchRegistry
    ENABLE_GPU_DRIVEN_RENDERING,  \* build flag read by createFrameGraph
    m_frameGraph,         \* registered passes, compiled flag, execution order
    sceneInits,           \* number of sceneInitialized calls so far
    executed,             \* pass invocations of the running renderFrame's execute
    queries,              \* per slot: the frame whose GPU timestamps the slot's
                          \* queries hold, and whether the GPU has written them
    timings,              \* m_gpuTimerManager.timings(): what the last
                          \* resolveTimings read
    lastHook,             \* the last scene hook the application called
    passEvents,           \* per registered pass: the last scene hook forwarded to it
    accessed              \* outcome of the last currentCommandBuffer / frameIndex call

vars == << pc, call, renderLog, callLog, m_currentFrameIndex, m_isFrameStarted, fence,
           cmdState, gpuPending, submitted, currentImage, imagesInFlight,
           swapExtent, notified, windowExtent, wasResized, recreateFrom,
           extent, observed, deletionQueue, flushed, frameInfo, frameCount,
           samples, files, lastSampleRegistry, m_drawBatchRegistry,
           ENABLE_GPU_DRIVEN_RENDERING, m_frameGraph, sceneInits, executed,
           queries, timings, lastHook, passEvents, accessed >>

benchVars == << samples, files, lastSampleRegistry, m_drawBatchRegistry >>
graphVars == << ENABLE_GPU_DRIVEN_RENDERING, m_frameGraph, sceneInits, executed >>
timerVars == << queries, timings >>
appVars == << lastHook, passEvents, accessed >>

NoExtent == <<0, 0>>
NoFlush == [ slot |-> NoSlot, entries |-> {}, gpuBusy |-> FALSE ]
NoFrameInfo == [ cmd |-> NoSlot, frameIndex |-> NoSlot ]
EmptyRegistry == [ instanceCount |-> 0, staticInstanceCount |-> 0, dynamicInstanceCount |-> 0 ]
EmptyFrameGraph == [ passes |-> << >>, compiled |-> FALSE, order |-> << >> ]
NoFrame == -1
NoQueries == [ frame |-> NoFrame, available |-> FALSE ]
NoTimings == [ slot |-> NoSlot, frame |-> NoFrame, available |-> FALSE ]
NoAccess == [ accessor |-> "none", started |-> FALSE, failed |-> FALSE, value |-> NoSlot ]

\* Mutant: the fences are created without VK_FENCE_CREATE_SIGNALED_BIT.
FenceCreatedUnsignaled == FALSE

\* createFrameContext: fenceInfo.flags = VK_FENCE_CREATE_SIGNALED_BIT.
FenceCreatedSignaled == TRUE

\* The state after the Renderer's construction, for one value of the build flag.
Constructed(gpuDriven) ==
    /\ ENABLE_GPU_DRIVEN_RENDERING = gpuDriven
    /\ pc = "idle"
    /\ call = "none"
    /\ renderLog = << >>
    /\ callLog = << >>
    /\ m_currentFrameIndex = 0
    /\ m_isFrameStarted = FALSE
    /\ fence = [ k \in Slots |-> FenceCreatedSignaled ]
    /\ cmdState = [ k \in Slots |-> "initial" ]
    /\ gpuPending = {}
    /\ submitted = 0
    /\ currentImage = 0
    /\ imagesInFlight = [ i \in Images |-> NoSlot ]
    /\ windowExtent \in NonZeroExtents
    /\ swapExtent = windowExtent
    /\ notified = NoExtent
    /\ wasResized = FALSE
    /\ recreateFrom = "none"
    /\ extent = NoExtent
    /\ observed = << >>
    /\ deletionQueue = [ k \in Slots |-> {} ]
    /\ flushed = NoFlush
    /\ frameInfo = NoFrameInfo
    /\ frameCount = 0
    /\ samples = {}
    /\ files = << >>
    /\ lastSampleRegistry = EmptyRegistry
    /\ m_drawBatchRegistry = EmptyRegistry
    /\ m_frameGraph = EmptyFrameGraph
    /\ sceneInits = 0
    /\ executed = << >>
    /\ queries = [ k \in Slots |-> NoQueries ]
    /\ timings = NoTimings
    /\ lastHook = "none"
    /\ passEvents = << >>
    /\ accessed = NoAccess

\* The frame graph is populated by sceneInitialized only, so a run without
\* that call never reads the build flag.
Init == Constructed(FALSE)

\* Either build.
InitAnyBuild == \E gpuDriven \in BOOLEAN : Constructed(gpuDriven)


(***************************************************************************)
(* Helpers                                                                 *)
(***************************************************************************)

\* The step performs these operations of beginFrame / endFrame.
Log(events) == callLog' = callLog \o events

\* What the log shows of m_window.wasResized(): the flag is read only when the
\* two comparisons of the present result before it are false, and shows when set.
ResizedFlagRead(result) ==
    IF result = "VK_SUCCESS" /\ wasResized THEN << "wasResized" >> ELSE << >>

\* renderFrame has completed this part.
Completed(part) ==
    renderLog' = IF call = "renderFrame" THEN Append(renderLog, part) ELSE renderLog

\* Mutant: only the current slot's work is waited for.
waitIdle_CurrentSlotOnly == \A s \in gpuPending : s.slot # m_currentFrameIndex

\* waitIdle(): vkDeviceWaitIdle returns once no submitted work is incomplete.
waitIdle == gpuPending = {}

\* The slot has a submission the GPU has not completed.
SlotBusy(k) == \E s \in gpuPending : s.slot = k

\* Mutant: beginFrame recreates on a suboptimal acquire as endFrame does on present.
AcquireNeedsRecreate_AlsoSuboptimal(result) ==
    result \in { "VK_ERROR_OUT_OF_DATE_KHR", "VK_SUBOPTIMAL_KHR" }

\* if (result == VK_ERROR_OUT_OF_DATE_KHR) in beginFrame
AcquireNeedsRecreate(result) == result = "VK_ERROR_OUT_OF_DATE_KHR"

\* AGX_ASSERT_X(result == VK_SUCCESS || result == VK_SUBOPTIMAL_KHR, ...)
AcquireOk(result) == result \in { "VK_SUCCESS", "VK_SUBOPTIMAL_KHR" }

\* Mutant: a suboptimal present does not trigger the recreation.
PresentNeedsRecreate_IgnoresSuboptimal(result, resized) ==
    \/ result = "VK_ERROR_OUT_OF_DATE_KHR"
    \/ resized

\* if (result == OUT_OF_DATE || result == SUBOPTIMAL || m_window.wasResized())
PresentNeedsRecreate(result, resized) ==
    \/ result = "VK_ERROR_OUT_OF_DATE_KHR"
    \/ result = "VK_SUBOPTIMAL_KHR"
    \/ resized

\* Mutant: the index saturates at the last slot instead of wrapping.
NextFrameIndex_Saturating(i) ==
    IF i + 1 < MAX_FRAMES_IN_FLIGHT THEN i + 1 ELSE i

\* (m_currentFrameIndex + 1) % MAX_FRAMES_IN_FLIGHT
NextFrameIndex(i) == (i + 1) % MAX_FRAMES_IN_FLIGHT

\* Mutant: the FrameInfo carries the index of the next slot.
BuildFrameInfo_NextIndex(i) == [ cmd |-> i, frameIndex |-> (i + 1) % MAX_FRAMES_IN_FLIGHT ]

\* FrameInfo{ .cmd = currentCommandBuffer(), .frameIndex = m_currentFrameIndex }
\* (the command buffer of slot k is identified with k).
BuildFrameInfo(i) == [ cmd |-> i, frameIndex |-> i ]

\* Mutant: the queue is flushed with the index read before its update.
FlushIndex_BeforeAdvance(before, after) == before

\* The argument of flushDeletionQueue: the index read after its update.
FlushIndex(before, after) == after

\* A resource handed to the deletion queue goes to the queue of slot k.
Schedule(queue, k) == [ queue EXCEPT ![k] = @ \cup {0} ]

\* One more endFrame has passed for every queued entry.
Aged(queue) == [ k \in Slots |-> { a + 1 : a \in queue[k] } ]

\* SwapChain::waitForImageInFlight returns for the acquired image.
ImageFree(i) == IF imagesInFlight[i] = NoSlot THEN TRUE ELSE fence[imagesInFlight[i]]

(***************************************************************************)
(* benchmarkFrameTimes                                                     *)
(***************************************************************************)

\* Mutant: the capture window also takes the call after its last row.
InCaptureWindow_Inclusive(fc) ==
    fc >= WARMUP_FRAMES /\ fc <= WARMUP_FRAMES + MEASURED_FRAMES

\* if (frameCount >= WARMUP_FRAMES && frameCount < WARMUP_FRAMES + MEASURED_FRAMES)
InCaptureWindow(fc) ==
    fc >= WARMUP_FRAMES /\ fc < WARMUP_FRAMES + MEASURED_FRAMES

\* Mutant: the file is written by every call from the end of the window on.
WritesFile_FromThenOn(fc) == fc >= WARMUP_FRAMES + MEASURED_FRAMES

\* else if (frameCount == WARMUP_FRAMES + MEASURED_FRAMES)
WritesFile(fc) == fc = WARMUP_FRAMES + MEASURED_FRAMES

\* size_t index = frameCount - WARMUP_FRAMES
SampleIndex(fc) == fc - WARMUP_FRAMES

\* Mutant: the static and the dynamic count are written under each other's label.
HeaderCounts_Swapped(reg) ==
    [ total |-> reg.instanceCount,
      static |-> reg.dynamicInstanceCount,
      dynamic |-> reg.staticInstanceCount ]

\* The three header lines: instanceCount(), staticInstanceCount(),
\* dynamicInstanceCount() of the registry passed to the call.
HeaderCounts(reg) ==
    [ total |-> reg.instanceCount,
      static |-> reg.staticInstanceCount,
      dynamic |-> reg.dynamicInstanceCount ]

\* for (i = 0; i < MEASURED_FRAMES; ++i) file << (i + 1) << "," << ...[i]:
\* one data row per vector element, numbered from 1, holding what was stored
\* at that index (nothing stored: the vectors' initial zeros).
FileRows(stored) ==
    { [ frame |-> i + 1,
        from |-> { t.call : t \in { u \in stored : u.index = i } } ] :
      i \in 0 .. (MEASURED_FRAMES - 1) }

(***************************************************************************)
(* DrawBatchRegistry                                                       *)
(***************************************************************************)

\* A scene, as the registry sees it: its renderable entities, each tagged
\* dynamic or not.
Scenes ==
    { << >>, << "dynamic" >>, << "untagged" >>, << "untagged", "dynamic" >> }

CountTagged(scene, tags) == Cardinality({ i \in 1 .. Len(scene) : scene[i] \in tags })

\* Mutant: every entity is counted as static, the dynamic ones as dynamic too.
Recompute_AllStatic(scene) ==
    [ instanceCount |-> Len(scene),
      staticInstanceCount |-> Len(scene),
      dynamicInstanceCount |-> CountTagged(scene, { "dynamic" }) ]

\* DrawBatchRegistry::sceneChanged: full recomputation from the scene's
\* entities; an entity tagged dynamic is dynamic, every other one static.
Recompute(scene) ==
    [ instanceCount |-> Len(scene),
      staticInstanceCount |-> CountTagged(scene, { "untagged" }),
      dynamicInstanceCount |-> CountTagged(scene, { "dynamic" }) ]

(***************************************************************************)
(* FrameGraph                                                              *)
(***************************************************************************)

Pass(type, renderSystems) == [ type |-> type, renderSystems |-> renderSystems ]

\* Mutant: the GPU-driven passes are added after the CPU-driven one instead
\* of in its place.
GeometryPasses_NotExclusive(gpuDriven) ==
    << Pass("GeometryPass", << "BindlessStaticMeshRenderSystem" >>) >>
    \o (IF gpuDriven
        THEN << Pass("CullingPass", << >>), Pass("SceneUpdatePass", << >>),
                Pass("GPUDrivenGeometry", << >>) >>
        ELSE << >>)

\* if constexpr (!ENABLE_GPU_DRIVEN_RENDERING) { GeometryPass } else { ... }
GeometryPasses(gpuDriven) ==
    IF ~gpuDriven
    THEN << Pass("GeometryPass", << "BindlessStaticMeshRenderSystem" >>) >>
    ELSE << Pass("CullingPass", << >>), Pass("SceneUpdatePass", << >>),
            Pass("GPUDrivenGeometry", << >>) >>

\* Mutant: the lighting pass is added before the sky box pass.
CommonPasses_LightingFirst ==
    << Pass("LightingPass", << >>), Pass("SkyBoxPass", << >>),
       Pass("PresentPass", << >>), Pass("UIPass", << >>),
       Pass("PostProcessingPass", << >>), Pass("BloomPass", << >>),
       Pass("TransparentPass", << "PointLightRenderSystem" >>) >>

\* The passes createFrameGraph adds in either build, in the order of its calls.
CommonPasses ==
    << Pass("SkyBoxPass", << >>), Pass("LightingPass", << >>),
       Pass("PresentPass", << >>), Pass("UIPass", << >>),
       Pass("PostProcessingPass", << >>), Pass("BloomPass", << >>),
       Pass("TransparentPass", << "PointLightRenderSystem" >>) >>

\* FrameGraph::add: the pass is registered after those registered before.
Add(graph, passes) == [ graph EXCEPT !.passes = @ \o passes ]

\* createFrameGraph: its add calls, applied to m_frameGraph as it is.
createFrameGraph(graph, gpuDriven) ==
    Add(Add(graph, GeometryPasses(gpuDriven)), CommonPasses)

\* FrameGraph::compile: the order of the add calls is the execution order.
Compile(graph) == [ graph EXCEPT !.compiled = TRUE, !.order = graph.passes ]

\* FrameGraph::sceneInitialized / sceneChanged: the hook is forwarded to
\* every registered pass.
Forward(graph, hook) == [ i \in 1 .. Len(graph.passes) |-> hook ]

\* FrameGraph::execute: every compiled pass, in order, once, with the same
\* FrameInfo.
ExecutePasses(order, info) ==
    [ i \in 1 .. Len(order) |-> [ pass |-> order[i], info |-> info ] ]

(***************************************************************************)
(* GPUTimerManager                                                         *)
(***************************************************************************)

\* The timestamp queries of a slot are recorded into the slot's command
\* buffer: once it is submitted they belong to that frame, and the GPU
\* writes them while it executes the submission.
QueriesSubmitted(slot, id) ==
    [ queries EXCEPT ![slot] = [ frame |-> id, available |-> FALSE ] ]

QueriesWritten(slot, id) ==
    IF queries[slot].frame = id
    THEN [ queries EXCEPT ![slot].available = TRUE ]
    ELSE queries

\* GPUTimerManager::resolveTimings(cmd, frameIndex): reads the queries of
\* slot frameIndex as they are; what it read is what timings() returns.
ResolveTimings(slot) ==
    [ slot |-> slot, frame |-> queries[slot].frame, available |-> queries[slot].available ]

\* The frame that the running renderFrame records, counting from 0 (one
\* frame per renderFrame call), and the slot it records into.
ThisFrame == frameCount
ThisSlot == ThisFrame % MAX_FRAMES_IN_FLIGHT

\* The timings of the frame submitted from the same slot one cycle earlier,
\* written by the GPU; nothing for the first frame of a slot.
DelayedTimings ==
    IF ThisFrame < MAX_FRAMES_IN_FLIGHT
    THEN [ slot |-> ThisSlot, frame |-> NoFrame, available |-> FALSE ]
    ELSE [ slot |-> ThisSlot, frame |-> ThisFrame - MAX_FRAMES_IN_FLIGHT,
           available |-> TRUE ]

\* Where beginFrame / endFrame return to.
AfterBeginFrame == IF call = "renderFrame" THEN "execute" ELSE "idle"
AfterEndFrame == IF call = "renderFrame" THEN "benchmark" ELSE "idle"

(***************************************************************************)
(* recreateSwapChain                                                       *)
(***************************************************************************)

\* Entry of recreateSwapChain: VkExtent2D extent = m_window.extent().
EnterRecreate(from) ==
    /\ pc' = "recreate"
    /\ recreateFrom' = from
    /\ extent' = windowExtent
    /\ observed' = << windowExtent >>

\* One round of the minimized loop: glfwWaitEvents processes window events
\* (which may change the extent and set the resized flag), then the extent
\* is read again.
RecreateSwapChain_Poll ==
    /\ pc = "recreate"
    /\ IsMinimized(extent)
    /\ \E e \in (IF Len(observed) < MaxPolls THEN Extents ELSE NonZeroExtents) :
        /\ windowExtent' = e
        /\ wasResized' = (wasResized \/ e # windowExtent)
        /\ extent' = e
        /\ observed' = Append(observed, e)
    /\ UNCHANGED << renderLog, pc, call, callLog, m_currentFrameIndex, m_isFrameStarted,
                    fence, cmdState, gpuPending, submitted, currentImage,
                    imagesInFlight, swapExtent, notified, recreateFrom,
                    deletionQueue, flushed, frameInfo, frameCount >>
    /\ UNCHANGED << benchVars, graphVars, timerVars, appVars >>

\* The minimized loop is left; waitIdle() blocks until the GPU has nothing left.
RecreateSwapChain_WaitIdle ==
    /\ pc = "recreate"
    /\ ~IsMinimized(extent)
    /\ waitIdle
    /\ pc' = "recreate_resize"
    /\ Log(<< "waitIdle" >>)
    /\ UNCHANGED << renderLog, call, m_currentFrameIndex, m_isFrameStarted, fence,
                    cmdState, gpuPending, submitted, currentImage,
                    imagesInFlight, swapExtent, notified, windowExtent,
                    wasResized, recreateFrom, extent, observed, deletionQueue,
                    flushed, frameInfo, frameCount >>
    /\ UNCHANGED << benchVars, graphVars, timerVars, appVars >>

\* Mutant: recreateSwapChain rebuilds the frame graph, as sceneInitialized
\* does, before it notifies the passes.
NotifyResized_GraphRebuilt ==
    /\ m_frameGraph' = Compile(createFrameGraph(m_frameGraph, ENABLE_GPU_DRIVEN_RENDERING))
    /\ notified' = extent

\* m_frameGraph.swapChainResized(extent.width, extent.height): the passes
\* of the graph, as it is, are told the new size.
NotifyResized ==
    /\ notified' = extent
    /\ UNCHANGED m_frameGraph

\* m_swapChain.resize(extent); m_frameGraph.swapChainResized(w, h);
\* m_window.resetResizedFlag(); return to the caller.
RecreateSwapChain_Resize ==
    /\ pc = "recreate_resize"
    /\ swapExtent' = extent
    /\ imagesInFlight' = [ i \in Images |-> NoSlot ]
    /\ NotifyResized
    /\ wasResized' = FALSE
    /\ Log(<< "resize", "swapChainResized", "resetResizedFlag" >>)
    /\ pc' = IF recreateFrom = "beginFrame" THEN "bf_retry" ELSE "ef_advance"
    /\ recreateFrom' = "none"
    /\ observed' = << >>
    /\ UNCHANGED << renderLog, call, m_currentFrameIndex, m_isFrameStarted, fence,
                    cmdState, gpuPending, submitted, currentImage,
                    windowExtent, extent, deletionQueue, flushed, frameInfo,
                    frameCount >>
    /\ UNCHANGED << benchVars, ENABLE_GPU_DRIVEN_RENDERING, sceneInits, executed,
                    timerVars, appVars >>

(***************************************************************************)
(* beginFrame                                                              *)
(***************************************************************************)

\* Mutant: beginFrame does not check that no frame is in progress.
BeginFrame_NoAssert ==
    /\ pc = "beginFrame"
    /\ pc' = "bf_waitFence"
    /\ UNCHANGED << call, renderLog, callLog, m_currentFrameIndex,
                    m_isFrameStarted, fence, cmdState, gpuPending, submitted,
                    currentImage, imagesInFlight, swapExtent, notified,
                    windowExtent, wasResized, recreateFrom, extent, observed,
                    deletionQueue, flushed, frameInfo, frameCount >>
    /\ UNCHANGED << benchVars, graphVars, timerVars, appVars >>

\* AGX_ASSERT(!m_isFrameStarted && ...)
BeginFrame_Assert ==
    /\ pc = "beginFrame"
    /\ pc' = IF m_isFrameStarted THEN "fatal" ELSE "bf_waitFence"
    /\ UNCHANGED << renderLog, call, callLog, m_currentFrameIndex, m_isFrameStarted,
                    fence, cmdState, gpuPending, submitted, currentImage,
                    imagesInFlight, swapExtent, notified, windowExtent,
                    wasResized, recreateFrom, extent, observed, deletionQueue,
                    flushed, frameInfo, frameCount >>
    /\ UNCHANGED << benchVars, graphVars, timerVars, appVars >>

\* vkResetCommandBuffer, vkBeginCommandBuffer, m_isFrameStarted = true,
\* resolveTimings; beginFrame returns.
StartRecording(events) ==
    /\ cmdState' = [ cmdState EXCEPT ![m_currentFrameIndex] = "recording" ]
    /\ m_isFrameStarted' = TRUE
    /\ timings' = ResolveTimings(m_currentFrameIndex)
    /\ Log(events \o << "resetCommandBuffer", "beginCommandBuffer", "resolveTimings" >>)
    /\ Completed("beginFrame")
    /\ pc' = AfterBeginFrame

\* Mutant: beginFrame does not wait for the slot's fence.
BeginFrame_WaitForFence_Skipped == TRUE

\* vkWaitForFences(device, 1, &frame.inFlightFence, VK_TRUE, UINT64_MAX)
\* returns once the current slot's fence is signaled.
BeginFrame_WaitForFence == fence[m_currentFrameIndex]

\* The fence wait has returned; first acquireNextImage and what follows it.
BeginFrame_Acquire ==
    /\ pc = "bf_waitFence"
    /\ BeginFrame_WaitForFence
    /\ \E result \in AcquireResults, img \in Images :
        IF AcquireNeedsRecreate(result)
        THEN /\ EnterRecreate("beginFrame")
             /\ Log(<< "waitForFences", "acquire", result, "recreateSwapChain" >>)
             /\ UNCHANGED << renderLog, cmdState, m_isFrameStarted, currentImage,
                             timings >>
        ELSE IF AcquireOk(result)
        THEN /\ currentImage' = img
             /\ StartRecording(<< "waitForFences", "acquire", result >>)
             /\ UNCHANGED << recreateFrom, extent, observed >>
        ELSE /\ pc' = "fatal"
             /\ Log(<< "waitForFences", "acquire", result >>)
             /\ UNCHANGED << renderLog, cmdState, m_isFrameStarted, currentImage,
                             recreateFrom, extent, observed, timings >>
    /\ UNCHANGED << call, m_currentFrameIndex, fence, gpuPending, submitted,
                    imagesInFlight, swapExtent, notified, windowExtent,
                    wasResized, deletionQueue, flushed, frameInfo, frameCount >>
    /\ UNCHANGED << benchVars, graphVars, queries, appVars >>

\* recreateSwapChain has returned; the second acquireNextImage.
BeginFrame_Retry ==
    /\ pc = "bf_retry"
    /\ \E result \in AcquireResults, img \in Images :
        IF AcquireOk(result)
        THEN /\ currentImage' = img
             /\ StartRecording(<< "acquire", result >>)
        ELSE /\ pc' = "fatal"
             /\ Log(<< "acquire", result >>)
             /\ UNCHANGED << renderLog, cmdState, m_isFrameStarted, currentImage,
                             timings >>
    /\ UNCHANGED << call, m_currentFrameIndex, fence, gpuPending, submitted,
                    imagesInFlight, swapExtent, notified, windowExtent,
                    wasResized, recreateFrom, extent, observed, deletionQueue,
                    flushed, frameInfo, frameCount >>
    /\ UNCHANGED << benchVars, graphVars, queries, appVars >>


(***************************************************************************)
(* renderFrame, FrameGraph execute, endFrame, benchmarkFrameTimes          *)
(***************************************************************************)

\* The application calls renderFrame, which calls beginFrame.
RenderFrame ==
    /\ pc = "idle"
    /\ submitted < MaxFrames
    /\ call' = "renderFrame"
    /\ renderLog' = << >>
    /\ callLog' = << >>
    /\ pc' = "beginFrame"
    /\ UNCHANGED << m_currentFrameIndex, m_isFrameStarted, fence, cmdState,
                    gpuPending, submitted, currentImage, imagesInFlight,
                    swapExtent, notified, windowExtent, wasResized,
                    recreateFrom, extent, observed, deletionQueue, flushed,
                    frameInfo, frameCount >>
    /\ UNCHANGED << benchVars, graphVars, timerVars, appVars >>

\* Between beginFrame and endFrame: the FrameInfo is built from the current
\* slot and handed to m_frameGraph.execute; a pass may retire a GPU resource
\* while it runs.
Execute ==
    /\ pc = "execute"
    /\ IF m_isFrameStarted
       THEN /\ frameInfo' = BuildFrameInfo(m_currentFrameIndex)
            /\ executed' = ExecutePasses(m_frameGraph.order, frameInfo')
            /\ \E retire \in BOOLEAN :
                deletionQueue' = IF retire
                                 THEN Schedule(deletionQueue, m_currentFrameIndex)
                                 ELSE deletionQueue
            /\ Completed("execute")
            /\ callLog' = << >>
            /\ pc' = "endFrame"
       ELSE /\ pc' = "fatal"
            /\ UNCHANGED << frameInfo, executed, deletionQueue, renderLog, callLog >>
    /\ UNCHANGED << call, m_currentFrameIndex, m_isFrameStarted, fence,
                    cmdState, gpuPending, submitted, currentImage,
                    imagesInFlight, swapExtent, notified, windowExtent,
                    wasResized, recreateFrom, extent, observed, flushed,
                    frameCount >>
    /\ UNCHANGED << benchVars, ENABLE_GPU_DRIVEN_RENDERING, m_frameGraph, sceneInits,
                    timerVars, appVars >>

\* Mutant: endFrame leaves m_isFrameStarted set.
EndRecording_FlagKept ==
    /\ cmdState' = [ cmdState EXCEPT ![m_currentFrameIndex] = "executable" ]
    /\ UNCHANGED m_isFrameStarted

\* m_isFrameStarted = false; vkEndCommandBuffer(frame.commandBuffer).
EndRecording ==
    /\ m_isFrameStarted' = FALSE
    /\ cmdState' = [ cmdState EXCEPT ![m_currentFrameIndex] = "executable" ]

\* AGX_ASSERT(m_isFrameStarted && ...), then the recording is ended.
EndFrame_Assert ==
    /\ pc = "endFrame"
    /\ IF m_isFrameStarted
       THEN /\ EndRecording
            /\ Log(<< "endCommandBuffer" >>)
            /\ pc' = "ef_waitImage"
       ELSE /\ pc' = "fatal"
            /\ UNCHANGED << m_isFrameStarted, cmdState, callLog >>
    /\ UNCHANGED << renderLog, call, m_currentFrameIndex, fence, gpuPending, submitted,
                    currentImage, imagesInFlight, swapExtent, notified,
                    windowExtent, wasResized, recreateFrom, extent, observed,
                    deletionQueue, flushed, frameInfo, frameCount >>
    /\ UNCHANGED << benchVars, graphVars, timerVars, appVars >>

\* Mutant: the slot's fence is reset before the wait for the image in flight,
\* which then never returns for an image last targeted from the same slot.
EndFrame_WaitForImage_AfterReset ==
    IF imagesInFlight[currentImage] = m_currentFrameIndex
    THEN FALSE
    ELSE ImageFree(currentImage)

\* Mutant: endFrame submits without the wait for the image in flight.
EndFrame_WaitForImage_Skipped == TRUE

\* m_swapChain.waitForImageInFlight(frame.inFlightFence) returns.
EndFrame_WaitForImage == ImageFree(currentImage)

\* waitForImageInFlight has returned; vkResetFences, vkQueueSubmit, present
\* and the check that follows it.
EndFrame_Submit ==
    /\ pc = "ef_waitImage"
    /\ EndFrame_WaitForImage
    /\ imagesInFlight' = [ imagesInFlight EXCEPT ![currentImage] = m_currentFrameIndex ]
    /\ fence' = [ fence EXCEPT ![m_currentFrameIndex] = FALSE ]
    /\ cmdState' = [ cmdState EXCEPT ![m_currentFrameIndex] = "pending" ]
    /\ gpuPending' = gpuPending \cup
            { [ id |-> submitted, slot |-> m_currentFrameIndex, image |-> currentImage ] }
    /\ submitted' = submitted + 1
    /\ queries' = QueriesSubmitted(m_currentFrameIndex, submitted)
    /\ \E result \in PresentResults :
        IF PresentNeedsRecreate(result, wasResized)
        THEN /\ EnterRecreate("endFrame")
             /\ Log(<< "waitForImageInFlight", "resetFences", "queueSubmit",
                       "present", result >>
                    \o ResizedFlagRead(result) \o << "recreateSwapChain" >>)
        ELSE /\ pc' = "ef_advance"
             /\ Log(<< "waitForImageInFlight", "resetFences", "queueSubmit",
                       "present", result >> \o ResizedFlagRead(result))
             /\ UNCHANGED << recreateFrom, extent, observed >>
    /\ UNCHANGED << renderLog, call, m_currentFrameIndex, m_isFrameStarted, currentImage,
                    swapExtent, notified, windowExtent, wasResized,
                    deletionQueue, flushed, frameInfo, frameCount >>
    /\ UNCHANGED << benchVars, graphVars, timings, appVars >>

\* m_currentFrameIndex = (m_currentFrameIndex + 1) % MAX_FRAMES_IN_FLIGHT;
\* VulkanContext::flushDeletionQueue(m_currentFrameIndex); endFrame returns.
EndFrame_Advance ==
    /\ pc = "ef_advance"
    /\ m_currentFrameIndex' = NextFrameIndex(m_currentFrameIndex)
    /\ LET k == FlushIndex(m_currentFrameIndex, m_currentFrameIndex')
       IN /\ flushed' = [ slot |-> k,
                          entries |-> Aged(deletionQueue)[k],
                          gpuBusy |-> SlotBusy(k) ]
          /\ deletionQueue' = [ Aged(deletionQueue) EXCEPT ![k] = {} ]
    /\ Log(<< "advance", "flushDeletionQueue" >>)
    /\ Completed("endFrame")
    /\ pc' = AfterEndFrame
    /\ UNCHANGED << call, m_isFrameStarted, fence, cmdState, gpuPending,
                    submitted, currentImage, imagesInFlight, swapExtent,
                    notified, windowExtent, wasResized, recreateFrom, extent,
                    observed, frameInfo, frameCount >>
    /\ UNCHANGED << benchVars, graphVars, timerVars, appVars >>

\* benchmarkFrameTimes(m_gpuTimerManager, m_drawBatchRegistry): a row is
\* captured inside the window, the file is written by the call after it,
\* ++frameCount; renderFrame returns.
Benchmark ==
    /\ pc = "benchmark"
    /\ IF InCaptureWindow(frameCount)
       THEN /\ samples' = samples \cup
                    { [ index |-> SampleIndex(frameCount), call |-> frameCount + 1,
                        gpu |-> timings ] }
            /\ lastSampleRegistry' = m_drawBatchRegistry
            /\ UNCHANGED files
       ELSE IF WritesFile(frameCount)
       THEN /\ files' = Append(files, [ call |-> frameCount + 1,
                                        header |-> HeaderCounts(m_drawBatchRegistry),
                                        rows |-> FileRows(samples) ])
            /\ UNCHANGED << samples, lastSampleRegistry >>
       ELSE UNCHANGED << samples, files, lastSampleRegistry >>
    /\ frameCount' = frameCount + 1
    /\ executed' = << >>
    /\ Completed("benchmarkFrameTimes")
    /\ callLog' = << >>
    /\ pc' = "idle"
    /\ UNCHANGED << call, m_currentFrameIndex, m_isFrameStarted, fence,
                    cmdState, gpuPending, submitted, currentImage,
                    imagesInFlight, swapExtent, notified, windowExtent,
                    wasResized, recreateFrom, extent, observed, deletionQueue,
                    flushed, frameInfo >>
    /\ UNCHANGED << m_drawBatchRegistry, ENABLE_GPU_DRIVEN_RENDERING, m_frameGraph,
                    sceneInits, timerVars, appVars >>

(***************************************************************************)
(* Environment: the GPU, the window, the application between frames        *)
(***************************************************************************)

\* The GPU completes a submission and signals the fence it was given.
GpuComplete ==
    /\ pc # "fatal"
    /\ \E s \in gpuPending :
        /\ gpuPending' = gpuPending \ {s}
        /\ fence' = [ fence EXCEPT ![s.slot] = TRUE ]
        /\ cmdState' = [ cmdState EXCEPT ![s.slot] = "invalid" ]
        /\ queries' = QueriesWritten(s.slot, s.id)
    /\ UNCHANGED << renderLog, pc, call, callLog, m_currentFrameIndex, m_isFrameStarted,
                    submitted, currentImage, imagesInFlight, swapExtent,
                    notified, windowExtent, wasResized, recreateFrom, extent,
                    observed, deletionQueue, flushed, frameInfo, frameCount >>
    /\ UNCHANGED << benchVars, graphVars, timings, appVars >>

\* Between two frames the window is resized (the application polls events).
WindowResize ==
    /\ pc = "idle"
    /\ \E e \in Extents \ { windowExtent } : windowExtent' = e
    /\ wasResized' = TRUE
    /\ UNCHANGED << renderLog, pc, call, callLog, m_currentFrameIndex, m_isFrameStarted,
                    fence, cmdState, gpuPending, submitted, currentImage,
                    imagesInFlight, swapExtent, notified, recreateFrom, extent,
                    observed, deletionQueue, flushed, frameInfo, frameCount >>
    /\ UNCHANGED << benchVars, graphVars, timerVars, appVars >>

\* Between two frames the window is minimized.
WindowMinimize ==
    /\ pc = "idle"
    /\ windowExtent \in NonZeroExtents
    /\ windowExtent' = << 0, 0 >>
    /\ wasResized' = TRUE
    /\ UNCHANGED << renderLog, pc, call, callLog, m_currentFrameIndex, m_isFrameStarted,
                    fence, cmdState, gpuPending, submitted, currentImage,
                    imagesInFlight, swapExtent, notified, recreateFrom, extent,
                    observed, deletionQueue, flushed, frameInfo, frameCount >>
    /\ UNCHANGED << benchVars, graphVars, timerVars, appVars >>

\* Between two frames the application retires a GPU resource.
DestroyResource ==
    /\ pc = "idle"
    /\ deletionQueue' = Schedule(deletionQueue, m_currentFrameIndex)
    /\ UNCHANGED << renderLog, pc, call, callLog, m_currentFrameIndex, m_isFrameStarted,
                    fence, cmdState, gpuPending, submitted, currentImage,
                    imagesInFlight, swapExtent, notified, windowExtent,
                    wasResized, recreateFrom, extent, observed, flushed,
                    frameInfo, frameCount >>
    /\ UNCHANGED << benchVars, graphVars, timerVars, appVars >>

rendererVars ==
    << pc, call, renderLog, callLog, m_currentFrameIndex, m_isFrameStarted, fence,
       cmdState, gpuPending, submitted, currentImage, imagesInFlight,
       swapExtent, notified, windowExtent, wasResized, recreateFrom,
       extent, observed, deletionQueue, flushed, frameInfo, frameCount >>

\* Renderer::sceneChanged: m_drawBatchRegistry.sceneChanged(scene), and
\* nothing else.
SceneChanged ==
    /\ pc = "idle"
    /\ \E scene \in Scenes : m_drawBatchRegistry' = Recompute(scene)
    /\ lastHook' = "sceneChanged"
    /\ UNCHANGED << rendererVars, samples, files, lastSampleRegistry, graphVars,
                    timerVars, passEvents, accessed >>

\* Renderer::sceneInitialized: createFrameGraph(); m_frameGraph.compile();
\* m_frameGraph.sceneInitialized(scene).
SceneInitialized ==
    /\ pc = "idle"
    /\ sceneInits < MaxInits
    /\ m_frameGraph' = Compile(createFrameGraph(m_frameGraph, ENABLE_GPU_DRIVEN_RENDERING))
    /\ sceneInits' = sceneInits + 1
    /\ lastHook' = "sceneInitialized"
    /\ passEvents' = Forward(m_frameGraph', "sceneInitialized")
    /\ UNCHANGED << rendererVars, benchVars, ENABLE_GPU_DRIVEN_RENDERING, executed,
                    timerVars, accessed >>

\* A renderFrame call whose beginFrame, execute and endFrame have returned:
\* benchmarkFrameTimes reads its own statics, the registry and the timings
\* that beginFrame resolved, and writes its statics only, so its runs are
\* followed with the frame part summarised by the timings it leaves.
ReachBenchmark ==
    /\ pc = "idle"
    /\ frameCount < WARMUP_FRAMES + MEASURED_FRAMES + MaxExtraTicks
    /\ call' = "renderFrame"
    /\ renderLog' = << "beginFrame", "execute", "endFrame" >>
    /\ callLog' = << >>
    /\ timings' = DelayedTimings
    /\ pc' = "benchmark"
    /\ UNCHANGED << m_currentFrameIndex, m_isFrameStarted, fence, cmdState,
                    gpuPending, submitted, currentImage, imagesInFlight,
                    swapExtent, notified, windowExtent, wasResized,
                    recreateFrom, extent, observed, deletionQueue, flushed,
                    frameInfo, frameCount >>
    /\ UNCHANGED << benchVars, graphVars, queries, appVars >>

(***************************************************************************)
(* A caller that drives beginFrame / endFrame itself                       *)
(***************************************************************************)

CallBeginFrame ==
    /\ pc = "idle"
    /\ submitted < MaxFrames
    /\ call' = "beginFrame"
    /\ callLog' = << >>
    /\ pc' = "beginFrame"
    /\ UNCHANGED << renderLog, m_currentFrameIndex, m_isFrameStarted, fence, cmdState,
                    gpuPending, submitted, currentImage, imagesInFlight,
                    swapExtent, notified, windowExtent, wasResized,
                    recreateFrom, extent, observed, deletionQueue, flushed,
                    frameInfo, frameCount >>
    /\ UNCHANGED << benchVars, graphVars, timerVars, appVars >>

CallEndFrame ==
    /\ pc = "idle"
    /\ submitted < MaxFrames
    /\ call' = "endFrame"
    /\ callLog' = << >>
    /\ pc' = "endFrame"
    /\ UNCHANGED << renderLog, m_currentFrameIndex, m_isFrameStarted, fence, cmdState,
                    gpuPending, submitted, currentImage, imagesInFlight,
                    swapExtent, notified, windowExtent, wasResized,
                    recreateFrom, extent, observed, deletionQueue, flushed,
                    frameInfo, frameCount >>
    /\ UNCHANGED << benchVars, graphVars, timerVars, appVars >>

\* Mutant: the accessors return without checking that a frame is in progress.
FrameInProgress_Unchecked == TRUE

\* AGX_ASSERT_X(m_isFrameStarted, "Cannot get ... when frame not in progress")
FrameInProgress == m_isFrameStarted

\* An accessor called by the application or by a pass: the assertion, then
\* the value is returned.
Access(accessor, value) ==
    /\ pc = "idle"
    /\ IF FrameInProgress
       THEN /\ accessed' = [ accessor |-> accessor, started |-> m_isFrameStarted,
                             failed |-> FALSE, value |-> value ]
            /\ UNCHANGED << pc, call >>
       ELSE /\ accessed' = [ accessor |-> accessor, started |-> m_isFrameStarted,
                             failed |-> TRUE, value |-> NoSlot ]
            /\ pc' = "fatal"
            /\ call' = accessor
    /\ UNCHANGED << renderLog, callLog, m_currentFrameIndex, m_isFrameStarted, fence,
                    cmdState, gpuPending, submitted, currentImage, imagesInFlight,
                    swapExtent, notified, windowExtent, wasResized,
                    recreateFrom, extent, observed, deletionQueue, flushed,
                    frameInfo, frameCount >>
    /\ UNCHANGED << benchVars, graphVars, timerVars, lastHook, passEvents >>

\* Renderer::currentCommandBuffer: m_frames[m_currentFrameIndex].commandBuffer,
\* named by its slot.
CurrentCommandBuffer == Access("currentCommandBuffer", m_currentFrameIndex)

\* Renderer::frameIndex: m_currentFrameIndex.
FrameIndex == Access("frameIndex", m_currentFrameIndex)

(***************************************************************************)
(* Specifications                                                          *)
(***************************************************************************)

Renderer ==
    \/ RenderFrame
    \/ BeginFrame_Assert
    \/ BeginFrame_Acquire
    \/ BeginFrame_Retry
    \/ RecreateSwapChain_Poll
    \/ RecreateSwapChain_WaitIdle
    \/ RecreateSwapChain_Resize
    \/ Execute
    \/ EndFrame_Assert
    \/ EndFrame_Submit
    \/ EndFrame_Advance
    \/ Benchmark

Next ==
    \/ Renderer
    \/ GpuComplete
    \/ WindowResize
    \/ DestroyResource

\* The application only ever calls renderFrame.
Spec == Init /\ [][Next]_vars

NextDirect ==
    \/ CallBeginFrame
    \/ CallEndFrame
    \/ CurrentCommandBuffer
    \/ FrameIndex
    \/ BeginFrame_Assert
    \/ BeginFrame_Acquire
    \/ BeginFrame_Retry
    \/ RecreateSwapChain_Poll
    \/ RecreateSwapChain_WaitIdle
    \/ RecreateSwapChain_Resize
    \/ EndFrame_Assert
    \/ EndFrame_Submit
    \/ EndFrame_Advance
    \/ GpuComplete
    \/ WindowResize

\* A caller invokes beginFrame and endFrame itself, in any order, and reads
\* the command buffer and the frame index between them.
SpecDirect == Init /\ [][NextDirect]_vars

\* The steps the render thread takes by itself inside a renderFrame call;
\* a round of the minimized loop needs a window event.
RenderThread ==
    \/ BeginFrame_Assert
    \/ BeginFrame_Acquire
    \/ BeginFrame_Retry
    \/ RecreateSwapChain_WaitIdle
    \/ RecreateSwapChain_Resize
    \/ Execute
    \/ EndFrame_Assert
    \/ EndFrame_Submit
    \/ EndFrame_Advance
    \/ Benchmark

\* A round of the minimized loop in which the window reports an extent
\* with both sides nonzero.
PollNonZero == RecreateSwapChain_Poll /\ extent' \in NonZeroExtents

NextLive ==
    \/ RenderFrame
    \/ BeginFrame_Assert
    \/ BeginFrame_Acquire
    \/ BeginFrame_Retry
    \/ RecreateSwapChain_Poll
    \/ RecreateSwapChain_WaitIdle
    \/ RecreateSwapChain_Resize
    \/ Execute
    \/ EndFrame_Assert
    \/ EndFrame_Submit
    \/ EndFrame_Advance
    \/ Benchmark
    \/ GpuComplete
    \/ WindowMinimize

\* Something that is not the application's or the window's choice goes on:
\* the render thread runs, the GPU completes a submission, or a minimized
\* window reports a nonzero extent.
Progress == RenderThread \/ GpuComplete \/ PollNonZero

\* The application only ever calls renderFrame and minimizes the window
\* between frames; the system does not stop while the render thread can
\* run, the GPU has work to complete or a minimized window is polled.
SpecLive == Init /\ [][NextLive]_vars /\ WF_vars(Progress)

NextHooks ==
    \/ SceneInitialized
    \/ SceneChanged
    \/ WindowResize

\* What the application does between frames: the scene finishes loading or
\* is replaced, the window is resized; in either build.
SpecHooks == InitAnyBuild /\ [][NextHooks]_vars

NextBench ==
    \/ ReachBenchmark
    \/ Benchmark
    \/ SceneChanged

\* The calls of benchmarkFrameTimes over a run of renderFrame calls, with
\* sceneChanged between any two of them.
SpecBench == Init /\ [][NextBench]_vars

NextScene ==
    \/ SceneInitialized
    \/ RenderFrame
    \/ BeginFrame_Assert
    \/ BeginFrame_Acquire
    \/ BeginFrame_Retry
    \/ RecreateSwapChain_WaitIdle
    \/ RecreateSwapChain_Resize
    \/ Execute
    \/ EndFrame_Assert
    \/ EndFrame_Submit
    \/ EndFrame_Advance
    \/ Benchmark
    \/ GpuComplete

\* The application initializes the scene, any number of times, between
\* frames, in either build; the window keeps its extent, so that
\* recreateSwapChain never polls.
SpecScene == InitAnyBuild /\ [][NextScene]_vars


(***************************************************************************)
(* Properties                                                              *)
(***************************************************************************)

\* frameCount is incremented once at the end of every renderFrame, so it is
\* the number N of renderFrame calls that have returned.
ReturnedCalls == frameCount

\* endFrame of the running renderFrame has already advanced the index.
IndexAdvancedInCall == pc = "benchmark"

\* C1: after N renderFrame calls have returned the frame-slot index is
\* N mod MAX_FRAMES_IN_FLIGHT; call number N (0-based) waits on, records and
\* submits slot N mod MAX_FRAMES_IN_FLIGHT, and the index differs from that
\* only after the call's own endFrame has advanced it (to (N+1) mod
\* MAX_FRAMES_IN_FLIGHT), so no other step moves the index.
C1_FrameIndexIsCallCountModulo ==
    /\ m_currentFrameIndex =
          (ReturnedCalls + (IF IndexAdvancedInCall THEN 1 ELSE 0)) % MAX_FRAMES_IN_FLIGHT
    /\ \A k \in Slots :
          cmdState[k] = "recording" => k = ReturnedCalls % MAX_FRAMES_IN_FLIGHT
    /\ frameInfo.frameIndex # NoSlot /\ pc \in { "endFrame", "ef_waitImage" }
          => frameInfo.frameIndex = ReturnedCalls % MAX_FRAMES_IN_FLIGHT

\* Three calls have returned and the index has wrapped around once.
C1_Witness ==
    /\ pc = "idle"
    /\ ReturnedCalls = MAX_FRAMES_IN_FLIGHT + 1
    /\ m_currentFrameIndex = 1

\* C2: whenever endFrame's flush of slot k destroys queued resources, no GPU
\* submission made from slot k is still incomplete at that moment.
C2_FlushOnlyAfterSlotCompleted ==
    flushed.entries # {} => ~flushed.gpuBusy

\* C3: a deletion-queue entry is flushed by exactly the
\* MAX_FRAMES_IN_FLIGHT-th endFrame after it was enqueued and by no earlier
\* one: every flushed entry has seen MAX_FRAMES_IN_FLIGHT endFrames, and an
\* entry still queued has seen fewer and sits in the queue of the slot that
\* was current when it was enqueued.
C3_FlushedAfterFullCycle ==
    /\ \A a \in flushed.entries : a = MAX_FRAMES_IN_FLIGHT
    /\ \A k \in Slots : \A a \in deletionQueue[k] :
          /\ a < MAX_FRAMES_IN_FLIGHT
          /\ (k + a) % MAX_FRAMES_IN_FLIGHT = m_currentFrameIndex

\* An entry has been flushed, after a full cycle.
C3_Witness ==
    /\ flushed.slot # NoSlot
    /\ flushed.entries = { MAX_FRAMES_IN_FLIGHT }


\* beginFrame entered while a frame is in progress, or endFrame entered
\* while none is.
MisusedEntry ==
    \/ pc = "beginFrame" /\ m_isFrameStarted
    \/ pc = "endFrame" /\ ~m_isFrameStarted

\* C4: the render thread's step out of a misused entry of beginFrame or
\* endFrame goes to the fatal state and does nothing else: no fence wait,
\* acquire, command-buffer reset, submit, present, index advance or flush.
C4_MisuseIsFatalWithoutEffect ==
    [][ MisusedEntry /\ pc' # pc
          => /\ pc' = "fatal"
             /\ UNCHANGED << callLog, m_currentFrameIndex, m_isFrameStarted,
                             fence, cmdState, gpuPending, submitted,
                             currentImage, imagesInFlight, swapExtent, notified,
                             wasResized, deletionQueue, flushed >> ]_vars

\* beginFrame was called while a frame was in progress and has aborted.
C4_Witness ==
    /\ pc = "fatal"
    /\ call = "beginFrame"
    /\ m_isFrameStarted
    /\ callLog = << >>

\* The frame contexts whose command buffer is being recorded.
ActiveFrames == { k \in Slots : cmdState[k] = "recording" }

\* C5 as stated: in every reachable state exactly one FrameContext is active.
C5_ExactlyOneActive == Cardinality(ActiveFrames) = 1

\* C5 as amended: in every reachable state at most one FrameContext is
\* active, and one is active exactly when m_isFrameStarted is true.
C5_AtMostOneActive ==
    /\ Cardinality(ActiveFrames) <= 1
    /\ m_isFrameStarted <=> Cardinality(ActiveFrames) = 1

\* Slot 1 is being recorded while slot 0's frame is still with the GPU.
C5_Witness ==
    /\ m_isFrameStarted
    /\ ActiveFrames = { 1 }
    /\ cmdState[0] = "pending"

IsPrefix(a, b) == Len(a) <= Len(b) /\ a = SubSeq(b, 1, Len(a))
Last(q) == q[Len(q)]

RenderOrder == << "beginFrame", "execute", "endFrame", "benchmarkFrameTimes" >>

InRecreateFrom(from) ==
    pc \in { "recreate", "recreate_resize" } /\ recreateFrom = from

\* C6: a renderFrame call completes beginFrame, the frame-graph execute,
\* endFrame and the benchmark sample in this order, each once; execute gets
\* the current slot's index and command buffer, which is recording; the
\* renderer is Recording between beginFrame and endFrame, Submitted from the
\* submit to the end of endFrame, and Idle (m_isFrameStarted false, every
\* frame submitted and sampled) whenever renderFrame is not executing.
C6_RenderFrameOrder ==
    /\ IsPrefix(renderLog, RenderOrder)
    /\ pc = "idle" /\ call = "renderFrame" => renderLog = RenderOrder
    /\ pc = "idle" => ~m_isFrameStarted /\ submitted = frameCount
    /\ pc \in { "beginFrame", "bf_waitFence", "bf_retry" } \/ InRecreateFrom("beginFrame")
          => renderLog = << >> /\ ~m_isFrameStarted /\ submitted = frameCount
    /\ pc = "execute"
          => /\ renderLog = SubSeq(RenderOrder, 1, 1)
             /\ m_isFrameStarted
             /\ cmdState[m_currentFrameIndex] = "recording"
    /\ pc = "endFrame"
          => /\ renderLog = SubSeq(RenderOrder, 1, 2)
             /\ m_isFrameStarted
             /\ frameInfo.frameIndex = m_currentFrameIndex
             /\ frameInfo.cmd = m_currentFrameIndex
             /\ cmdState[frameInfo.cmd] = "recording"
    /\ pc = "ef_waitImage"
          => renderLog = SubSeq(RenderOrder, 1, 2) /\ ~m_isFrameStarted
    /\ pc = "ef_advance" \/ InRecreateFrom("endFrame")
          => /\ renderLog = SubSeq(RenderOrder, 1, 2)
             /\ ~m_isFrameStarted
             /\ submitted = frameCount + 1
    /\ pc = "benchmark"
          => /\ renderLog = SubSeq(RenderOrder, 1, 3)
             /\ ~m_isFrameStarted
             /\ submitted = frameCount + 1

\* Two renderFrame calls have returned.
C6_Witness ==
    /\ pc = "idle"
    /\ renderLog = RenderOrder
    /\ frameCount = 2

OutOfDate == "VK_ERROR_OUT_OF_DATE_KHR"
AcquireFirst(result) == << "waitForFences", "acquire", result >>
RecordingOps == << "resetCommandBuffer", "beginCommandBuffer", "resolveTimings" >>
RecreateOps ==
    << "recreateSwapChain", "waitIdle", "resize", "swapChainResized", "resetResizedFlag" >>
Usable == { "VK_SUCCESS", "VK_SUBOPTIMAL_KHR" }

\* C7: what beginFrame does, by the results of acquireNextImage.  An
\* out-of-date first acquire is followed by one recreateSwapChain and one
\* second acquire; a second acquire that is neither success nor suboptimal
\* is fatal with nothing recorded and nothing recreated or retried after
\* it; any other first result is followed by no recreation and no retry.
C7_AcquireRetriedOnce ==
    /\ InRecreateFrom("beginFrame")
          => /\ IsPrefix(callLog, AcquireFirst(OutOfDate) \o RecreateOps)
             /\ Len(callLog) >= 4
    /\ pc = "bf_retry" => callLog = AcquireFirst(OutOfDate) \o RecreateOps
    /\ pc = "execute"
          => \E r \in Usable :
                \/ callLog = AcquireFirst(r) \o RecordingOps
                \/ callLog = AcquireFirst(OutOfDate) \o RecreateOps
                                \o << "acquire", r >> \o RecordingOps
    /\ pc = "fatal"
          => /\ ~m_isFrameStarted
             /\ ActiveFrames = {}
             /\ \E r \in AcquireResults \ Usable :
                   \/ callLog = AcquireFirst(r) /\ r # OutOfDate
                   \/ callLog = AcquireFirst(OutOfDate) \o RecreateOps \o << "acquire", r >>

\* The retry was out of date again: fatal after one recreation.
C7_Witness ==
    /\ pc = "fatal"
    /\ callLog = AcquireFirst(OutOfDate) \o RecreateOps \o << "acquire", OutOfDate >>

SubmitOps ==
    << "endCommandBuffer", "waitForImageInFlight", "resetFences", "queueSubmit", "present" >>
AdvanceOps == << "advance", "flushDeletionQueue" >>

\* What endFrame has done when it reaches the index advance.
EndFrameLogs ==
    { SubmitOps \o << "VK_SUCCESS" >> }
    \cup { SubmitOps \o << r >> \o RecreateOps : r \in { OutOfDate, "VK_SUBOPTIMAL_KHR" } }
    \cup { SubmitOps \o << "VK_SUCCESS", "wasResized" >> \o RecreateOps }

\* C8: endFrame runs recreateSwapChain, after submit and present and before
\* the index advance, exactly when present returned out-of-date or
\* suboptimal or the window's resized flag was set; the flag is false when
\* endFrame returns; endFrame never ends in the fatal state.
C8_PresentRecreation ==
    /\ pc = "ef_advance" => callLog \in EndFrameLogs /\ ~wasResized
    /\ pc = "benchmark"
          => /\ \E l \in EndFrameLogs : callLog = l \o AdvanceOps
             /\ ~wasResized
    /\ InRecreateFrom("endFrame")
          => \E l \in EndFrameLogs : IsPrefix(callLog, l) /\ Len(callLog) > Len(SubmitOps) + 1
    /\ pc = "fatal" => ~IsPrefix(<< "endCommandBuffer" >>, callLog)

\* endFrame has returned after a recreation caused by the resized flag alone.
C8_Witness ==
    /\ pc = "benchmark"
    /\ callLog = SubmitOps \o << "VK_SUCCESS", "wasResized" >> \o RecreateOps \o AdvanceOps
    /\ ~wasResized

HasZeroSide(e) == e[1] = 0 \/ e[2] = 0

\* C9: the swapchain is never resized to, and the frame graph never
\* notified of, an extent with a zero side: recreateSwapChain leaves its
\* polling loop at the first extent it reads with both sides nonzero, every
\* extent read before it having a zero side, and resizes to that extent.
C9_NoZeroExtentResize ==
    /\ ~HasZeroSide(swapExtent)
    /\ notified # NoExtent => ~HasZeroSide(notified)
    /\ pc \in { "recreate", "recreate_resize" }
          => /\ observed # << >>
             /\ extent = Last(observed)
             /\ \A i \in 1 .. (Len(observed) - 1) : HasZeroSide(observed[i])
    /\ pc = "recreate_resize" => ~HasZeroSide(extent)
    /\ callLog # << >> /\ Last(callLog) = "resetResizedFlag"
          => swapExtent = extent /\ notified = extent

\* The scripted window: two zero extents are read, then 1920x1080, and the
\* loop has been left with that extent.
C9_Witness ==
    /\ pc = "recreate_resize"
    /\ observed = << <<0, 0>>, <<0, 0>>, <<1920, 1080>> >>
    /\ extent = <<1920, 1080>>

\* C10: recreateSwapChain waits for the device to be idle, then resizes the
\* swapchain, then notifies the frame graph of the new width and height,
\* then clears the resized flag; no submitted GPU work is incomplete when
\* the resize and the notification happen.
C10_RecreateOrder ==
    /\ pc = "recreate_resize" => gpuPending = {} /\ Last(callLog) = "waitIdle"
    /\ \A i \in 1 .. Len(callLog) :
          /\ callLog[i] = "waitIdle" => i > 1 /\ callLog[i - 1] = "recreateSwapChain"
          /\ callLog[i] = "resize"
                => /\ i > 1 /\ callLog[i - 1] = "waitIdle"
                   /\ i + 2 <= Len(callLog)
                   /\ callLog[i + 1] = "swapChainResized"
                   /\ callLog[i + 2] = "resetResizedFlag"
    /\ callLog # << >> /\ Last(callLog) = "resetResizedFlag"
          => /\ gpuPending = {}
             /\ ~wasResized
             /\ notified = swapExtent
    /\ notified # NoExtent => notified = swapExtent

\* endFrame's recreation has finished after a second frame was submitted.
C10_Witness ==
    /\ pc = "ef_advance"
    /\ Last(callLog) = "resetResizedFlag"
    /\ submitted = 2
    /\ swapExtent = <<800, 600>>


(***************************************************************************)
(* Properties of the CPU / GPU pipeline                                    *)
(***************************************************************************)

\* The submissions made from slot k, or targeting image i, that the GPU has
\* not completed.
PendingOfSlot(k) == { s \in gpuPending : s.slot = k }
PendingOnImage(i) == { s \in gpuPending : s.image = i }

\* C18: the command buffer of slot k is never reset, recorded or ended by the
\* CPU while a submission made from slot k is incomplete on the GPU, and a
\* slot never has two incomplete submissions.
C18_SlotNotRecordedWhileOnGpu ==
    \A k \in Slots :
        /\ cmdState[k] \in { "recording", "executable" } => PendingOfSlot(k) = {}
        /\ Cardinality(PendingOfSlot(k)) <= 1
        /\ PendingOfSlot(k) # {} => cmdState[k] = "pending"

\* Slot 0 is recorded for the second time, after the GPU has completed its
\* first frame, while the frame of slot 1 is still incomplete.
C18_Witness ==
    /\ cmdState[0] = "recording"
    /\ submitted = MAX_FRAMES_IN_FLIGHT
    /\ PendingOfSlot(0) = {}
    /\ PendingOfSlot(1) # {}

\* C19: at most MAX_FRAMES_IN_FLIGHT submitted frames are incomplete, and
\* at most MAX_FRAMES_IN_FLIGHT - 1 while the CPU is recording a frame.
C19_FramesInFlightBounded ==
    /\ Cardinality(gpuPending) <= MAX_FRAMES_IN_FLIGHT
    /\ m_isFrameStarted \/ ActiveFrames # {}
          => Cardinality(gpuPending) <= MAX_FRAMES_IN_FLIGHT - 1

\* The third frame has been submitted while the second is incomplete: the
\* GPU holds as many frames as there are slots.
C19_Witness ==
    /\ submitted = MAX_FRAMES_IN_FLIGHT + 1
    /\ Cardinality(gpuPending) = MAX_FRAMES_IN_FLIGHT
    /\ pc = "ef_advance"

\* C20: no two incomplete submissions target the same presentable image.
C20_ImageNotSharedByPendingFrames ==
    \A i \in Images : Cardinality(PendingOnImage(i)) <= 1

\* The second frame (slot 1) has been submitted on image 0, which the first
\* frame (slot 0) had targeted: the image index is not the slot index, the
\* swapchain has never been recreated, and the first frame is complete.
C20_Witness ==
    /\ pc = "ef_advance"
    /\ submitted = 2
    /\ gpuPending = { [ id |-> 1, slot |-> 1, image |-> 0 ] }
    /\ imagesInFlight[0] = 1
    /\ \A i \in Images \ { 0 } : imagesInFlight[i] = NoSlot
    /\ notified = NoExtent

\* C21: with the GPU completing every submission and a minimized window
\* eventually reporting a nonzero extent, a renderFrame call eventually
\* returns or aborts; it never aborts or returns with a command buffer
\* recorded and not submitted, a recording is left only by ending it and an
\* ended recording only by submitting it: a frame that begins recording is
\* eventually submitted.
C21_BegunFramesAreSubmitted ==
    /\ []<>(pc \in { "idle", "fatal" })
    /\ [](pc \in { "idle", "fatal" }
            => \A k \in Slots : cmdState[k] \notin { "recording", "executable" })
    /\ [][ \A k \in Slots :
             /\ cmdState[k] = "recording" => cmdState'[k] \in { "recording", "executable" }
             /\ cmdState[k] = "executable" => cmdState'[k] \in { "executable", "pending" }
       ]_vars

\* The third frame has been submitted, after the wait for the first frame's
\* fence, and endFrame has waited for the device and recreated the swapchain.
C21_Witness ==
    /\ pc = "ef_advance"
    /\ submitted = 3
    /\ Last(callLog) = "resetResizedFlag"
    /\ gpuPending = {}

\* The step is an acquireNextImage of beginFrame that returned suboptimal.
AcquiredSuboptimal ==
    /\ pc \in { "bf_waitFence", "bf_retry" }
    /\ Len(callLog') > Len(callLog)
    /\ \E i \in (Len(callLog) + 1) .. Len(callLog') :
          /\ callLog'[i] = "VK_SUBOPTIMAL_KHR"
          /\ callLog'[i - 1] = "acquire"

\* What a step has appended to the log of the call in progress.
Appended == SubSeq(callLog', Len(callLog) + 1, Len(callLog'))

\* C22: an acquire that returns suboptimal is followed, in beginFrame, by the
\* start of the recording and nothing else (no recreation, no second acquire,
\* no abort); from there to the submit the acquired image and the swapchain
\* are left alone, the submit targets the acquired image, and
\* recreateSwapChain is entered by endFrame only, after submit and present.
C22_SuboptimalAcquireTolerated ==
    [][ /\ AcquiredSuboptimal
            => /\ pc' = "execute"
               /\ m_isFrameStarted'
               /\ cmdState'[m_currentFrameIndex] = "recording"
               /\ \E img \in Images : currentImage' = img
               /\ \E first \in { << >>, << "waitForFences" >> } :
                     Appended = first \o << "acquire", "VK_SUBOPTIMAL_KHR" >>
                                      \o RecordingOps
               /\ UNCHANGED << swapExtent, notified, wasResized, imagesInFlight >>
        /\ pc \in { "execute", "endFrame", "ef_waitImage" }
            => /\ UNCHANGED << currentImage, swapExtent, notified >>
               /\ pc' \notin { "fatal", "bf_retry", "bf_waitFence" }
               /\ pc' = "recreate"
                     => /\ pc = "ef_waitImage"
                        /\ recreateFrom' = "endFrame"
                        /\ IsPrefix(<< "waitForImageInFlight", "resetFences",
                                       "queueSubmit", "present" >>, Appended)
               /\ submitted' # submitted
                     => gpuPending' \ gpuPending
                            = { [ id |-> submitted, slot |-> m_currentFrameIndex,
                                  image |-> currentImage ] }
      ]_vars

\* The second frame's acquire returned suboptimal, for image 1; beginFrame
\* has returned with slot 1 recording and the swapchain as it was created.
C22_Witness ==
    /\ pc = "execute"
    /\ callLog = AcquireFirst("VK_SUBOPTIMAL_KHR") \o RecordingOps
    /\ submitted = 1
    /\ currentImage = 1
    /\ cmdState[1] = "recording"
    /\ notified = NoExtent

\* C26: the fence of a slot is unsignaled exactly while a submission made
\* from that slot is incomplete; in particular every fence is signaled before
\* the slot's first submission, so the first wait on a slot does not block;
\* the fence reset is immediately followed by the queue submit.
C26_FenceUnsignaledOnlyWhilePending ==
    /\ \A k \in Slots : fence[k] <=> PendingOfSlot(k) = {}
    /\ pc = "bf_waitFence" /\ submitted < MAX_FRAMES_IN_FLIGHT
          => BeginFrame_WaitForFence
    /\ \A i \in 1 .. Len(callLog) :
          callLog[i] = "resetFences"
             => i < Len(callLog) /\ callLog[i + 1] = "queueSubmit"

\* The third frame waits for the fence of slot 0, unsignaled because the
\* first frame is still on the GPU, while the second frame has completed.
C26_Witness ==
    /\ pc = "bf_waitFence"
    /\ submitted = MAX_FRAMES_IN_FLIGHT
    /\ m_currentFrameIndex = 0
    /\ ~fence[0]
    /\ fence[1]
    /\ gpuPending = { [ id |-> 0, slot |-> 0, image |-> 0 ] }

\* The positions of an operation in the log of the call in progress.
Positions(op) == { i \in 1 .. Len(callLog) : callLog[i] = op }

\* C27: while recreateSwapChain runs no command buffer is recording and no
\* frame is started; when beginFrame calls it the frame's recording has not
\* begun, when endFrame calls it the recording has been ended and the frame
\* submitted and presented.
C27_NoRecreationWhileRecording ==
    /\ pc \in { "recreate", "recreate_resize" }
          => /\ ActiveFrames = {}
             /\ ~m_isFrameStarted
             /\ recreateFrom \in { "beginFrame", "endFrame" }
    /\ InRecreateFrom("beginFrame")
          => /\ Positions("beginCommandBuffer") = {}
             /\ submitted = frameCount
    /\ InRecreateFrom("endFrame")
          => /\ cmdState[m_currentFrameIndex] \in { "pending", "invalid" }
             /\ submitted = frameCount + 1
    /\ \A i \in 1 .. Len(callLog) :
          callLog[i] = "recreateSwapChain"
             => /\ \A j \in 1 .. i : callLog[j] # "beginCommandBuffer"
                /\ callLog[1] = "endCommandBuffer"
                      => \E j \in 1 .. i : callLog[j] = "present"

\* endFrame has called recreateSwapChain with the frames of both slots
\* submitted and incomplete: the device idle wait is still to come.
C27_Witness ==
    /\ pc = "recreate"
    /\ recreateFrom = "endFrame"
    /\ Cardinality(gpuPending) = MAX_FRAMES_IN_FLIGHT
    /\ \A k \in Slots : cmdState[k] = "pending"

\* The accessors of the frame in progress.
Accessors == { "currentCommandBuffer", "frameIndex" }

\* C25: at most one command buffer is recording, that of slot
\* m_currentFrameIndex, and it is recording whenever m_isFrameStarted is
\* true; currentCommandBuffer() and frameIndex() abort exactly when they
\* are called with m_isFrameStarted false, and otherwise return a slot.
C25_OnlyCurrentSlotRecords ==
    /\ Cardinality(ActiveFrames) <= 1
    /\ ActiveFrames \subseteq { m_currentFrameIndex }
    /\ m_isFrameStarted => cmdState[m_currentFrameIndex] = "recording"
    /\ accessed.accessor \in Accessors
          => /\ accessed.failed <=> ~accessed.started
             /\ accessed.failed => accessed.value = NoSlot
             /\ ~accessed.failed => accessed.value \in Slots
    /\ pc = "fatal" /\ call \in Accessors
          => /\ accessed.accessor = call
             /\ accessed.failed
             /\ ~m_isFrameStarted
             /\ ActiveFrames = {}

\* currentCommandBuffer() is called after the first frame has been ended
\* and submitted: no frame is in progress, and the call aborts.
C25_Witness ==
    /\ pc = "fatal"
    /\ call = "currentCommandBuffer"
    /\ accessed.failed
    /\ submitted = 1
    /\ m_currentFrameIndex = 1

\* beginFrame of the running renderFrame has returned.
BeginFrameReturned == renderLog # << >> /\ renderLog[1] = "beginFrame" /\ pc # "idle"

\* C24: a renderFrame call resolves the GPU timings once, as the last
\* operation of beginFrame, after the wait for the fence of the current slot
\* and for that slot, and nowhere else; from then to the benchmark row of
\* the call, timings() holds the values of the frame submitted from the same
\* slot MAX_FRAMES_IN_FLIGHT frames earlier, which the GPU has completed, and
\* never those of an incomplete submission.
C24_TimingsAreThoseOfTheSlotsPreviousFrame ==
    /\ \A i \in 1 .. Len(callLog) :
          callLog[i] = "resolveTimings"
             => /\ i = Len(callLog)
                /\ callLog[1] = "waitForFences"
                /\ pc = "execute"
    /\ pc = "execute" => Last(callLog) = "resolveTimings"
    /\ BeginFrameReturned => timings = DelayedTimings
    /\ \A s \in gpuPending : s.id # timings.frame
    /\ timings.frame # NoFrame => timings.available

\* benchmarkFrameTimes of the third call is about to read timings(): they
\* are those of the first frame, while the second and the third frame are
\* still on the GPU.
C24_Witness ==
    /\ pc = "benchmark"
    /\ timings = [ slot |-> 0, frame |-> 0, available |-> TRUE ]
    /\ frameCount = MAX_FRAMES_IN_FLIGHT
    /\ { s.id : s \in gpuPending } = { 1, 2 }

(***************************************************************************)
(* Properties of the frame graph                                           *)
(***************************************************************************)

Types(passes) == [ i \in 1 .. Len(passes) |-> passes[i].type ]
TypeSet(passes) == { passes[i].type : i \in 1 .. Len(passes) }

CpuDrivenTypes == << "GeometryPass" >>
GpuDrivenTypes == << "CullingPass", "SceneUpdatePass", "GPUDrivenGeometry" >>
SharedTypes ==
    << "SkyBoxPass", "LightingPass", "PresentPass", "UIPass", "PostProcessingPass",
       "BloomPass", "TransparentPass" >>

\* The pass types one createFrameGraph registers, in the order of its calls.
RegisteredTypes ==
    (IF ENABLE_GPU_DRIVEN_RENDERING THEN GpuDrivenTypes ELSE CpuDrivenTypes) \o SharedTypes

RECURSIVE Repeated(_, _)
Repeated(q, n) == IF n = 0 THEN << >> ELSE q \o Repeated(q, n - 1)

\* C11: once the frame graph has been compiled its pass sequence never
\* changes: after any number k >= 1 of sceneInitialized calls the registered
\* passes and the execution order are those one createFrameGraph registers,
\* as after the first call, whatever else has run since.
C11_PassSequenceFixedOnceCompiled ==
    sceneInits >= 1
       => /\ m_frameGraph.compiled
          /\ Types(m_frameGraph.passes) = RegisteredTypes
          /\ Types(m_frameGraph.order) = RegisteredTypes

\* C12: a compiled frame graph has exactly one geometry-submission strategy
\* registered, the one of the build: the CPU-driven GeometryPass or the
\* whole GPU-driven set, never both and never neither.
C12_ExactlyOneGeometryStrategy ==
    m_frameGraph.compiled
       => LET types == TypeSet(m_frameGraph.passes)
              cpu == "GeometryPass" \in types
              gpu == types \cap { "CullingPass", "SceneUpdatePass", "GPUDrivenGeometry" }
          IN /\ cpu <=> gpu = {}
             /\ gpu # {} => gpu = { "CullingPass", "SceneUpdatePass", "GPUDrivenGeometry" }
             /\ cpu <=> ~ENABLE_GPU_DRIVEN_RENDERING
             /\ TypeSet(m_frameGraph.order) = types

\* The GPU-driven build has compiled its graph, rendered two frames and
\* recreated the swapchain in the second.
C12_Witness ==
    /\ ENABLE_GPU_DRIVEN_RENDERING
    /\ m_frameGraph.compiled
    /\ TypeSet(m_frameGraph.passes) \cap { "GeometryPass", "GPUDrivenGeometry" }
          = { "GPUDrivenGeometry" }
    /\ frameCount = 1
    /\ pc = "ef_advance"
    /\ notified = swapExtent

\* The render thread is between the frame-graph execute and the return of
\* renderFrame.
AfterExecute ==
    pc \in { "endFrame", "ef_waitImage", "ef_advance", "benchmark" } \/ InRecreateFrom("endFrame")

\* C17: a renderFrame call executes every pass of the compiled frame graph
\* exactly once, in the order createFrameGraph registered them, and every
\* pass gets the FrameInfo built for that frame; nothing is executed before
\* beginFrame has returned.
C17_EveryPassExecutedOnceInOrder ==
    /\ AfterExecute
          => /\ Len(executed) = Len(m_frameGraph.passes)
             /\ \A i \in 1 .. Len(executed) :
                   /\ executed[i].pass = m_frameGraph.passes[i]
                   /\ executed[i].info = frameInfo
             /\ Types([ i \in 1 .. Len(executed) |-> executed[i].pass ])
                   = Repeated(RegisteredTypes, sceneInits)
             /\ frameInfo.frameIndex = frameCount % MAX_FRAMES_IN_FLIGHT
             /\ frameInfo.cmd = frameInfo.frameIndex
    /\ ~AfterExecute => executed = << >>

\* The second frame of the CPU-driven build has executed the eight passes
\* of its graph on slot 1.
C17_Witness ==
    /\ pc = "endFrame"
    /\ ~ENABLE_GPU_DRIVEN_RENDERING
    /\ sceneInits = 1
    /\ Len(executed) = 8
    /\ executed[1].pass.type = "GeometryPass"
    /\ executed[8].pass.type = "TransparentPass"
    /\ executed[8].info.frameIndex = 1

(***************************************************************************)
(* Properties of benchmarkFrameTimes and of the registry                   *)
(***************************************************************************)

\* The call of benchmarkFrameTimes that follows the capture window.
WritingCall == WARMUP_FRAMES + MEASURED_FRAMES + 1

\* C13: frame_times.csv is written exactly once over any run of renderFrame
\* calls: by call number WARMUP_FRAMES + MEASURED_FRAMES + 1 (the 2001st),
\* by no earlier call and by no later one.
C13_FileWrittenExactlyOnce ==
    /\ Len(files) = (IF frameCount >= WritingCall THEN 1 ELSE 0)
    /\ \A i \in 1 .. Len(files) : files[i].call = WritingCall /\ files[i].call = 2001

\* The file has been written and later calls have returned.
C13_Witness ==
    /\ pc = "idle"
    /\ frameCount = WritingCall + 2
    /\ Len(files) = 1

\* The number of window calls that have returned.
Captured ==
    IF frameCount <= WARMUP_FRAMES THEN 0
    ELSE IF frameCount >= WARMUP_FRAMES + MEASURED_FRAMES THEN MEASURED_FRAMES
    ELSE frameCount - WARMUP_FRAMES

\* C14: rows are captured by exactly the calls numbered WARMUP_FRAMES + 1 ..
\* WARMUP_FRAMES + MEASURED_FRAMES, the j-th of them into index j - 1, each
\* index written once and within the vectors; no other call writes a row;
\* the file holds MEASURED_FRAMES data rows numbered 1 .. MEASURED_FRAMES,
\* row j holding what call WARMUP_FRAMES + j captured.
C14_RowsCapturedOncePerWindowCall ==
    /\ Cardinality(samples) = Captured
    /\ { t.index : t \in samples } = 0 .. (Captured - 1)
    /\ \A t \in samples : t.call = WARMUP_FRAMES + t.index + 1
    /\ \A i \in 1 .. Len(files) :
          files[i].rows = { [ frame |-> j, from |-> { WARMUP_FRAMES + j } ] :
                            j \in 1 .. MEASURED_FRAMES }

\* The file has been written with its last row captured by the last call
\* of the window.
C14_Witness ==
    /\ Len(files) = 1
    /\ Cardinality(files[1].rows) = 1000
    /\ [ frame |-> 1000, from |-> { 2000 } ] \in files[1].rows
    /\ frameCount = WritingCall + 1

\* C15: the instance counts in the file's header are the registry's at the
\* call that writes the file, whatever they were at any measured frame.
C15_HeaderCountsOfWritingTick ==
    [][ Len(files') > Len(files)
          => /\ files'[Len(files')].header.total = m_drawBatchRegistry.instanceCount
             /\ files'[Len(files')].header.static = m_drawBatchRegistry.staticInstanceCount
             /\ files'[Len(files')].header.dynamic = m_drawBatchRegistry.dynamicInstanceCount
    ]_vars

\* The registry was empty at the last measured frame, sceneChanged then
\* brought it to one static and one dynamic instance, and the file's header
\* shows these.
C15_Witness ==
    /\ Len(files) = 1
    /\ lastSampleRegistry = EmptyRegistry
    /\ files[1].header = [ total |-> 2, static |-> 1, dynamic |-> 1 ]

\* C16: in every state of the registry the static and the dynamic count
\* add up to the instance count; so do the counts written to the file.
C16_StaticPlusDynamicIsTotal ==
    /\ m_drawBatchRegistry.staticInstanceCount + m_drawBatchRegistry.dynamicInstanceCount
          = m_drawBatchRegistry.instanceCount
    /\ \A i \in 1 .. Len(files) :
          files[i].header.static + files[i].header.dynamic = files[i].header.total

\* sceneChanged has counted a scene with one static and one dynamic instance.
C16_Witness ==
    /\ m_drawBatchRegistry.instanceCount = 2
    /\ m_drawBatchRegistry.staticInstanceCount = 1
    /\ m_drawBatchRegistry.dynamicInstanceCount = 1
    /\ frameCount > 0

(***************************************************************************)
(* Properties of the scene hooks and of the swapchain recreation           *)
(***************************************************************************)

\* C23: once the application has reported a scene change, every pass of the
\* frame graph has been told of it.
C23_SceneChangeForwardedToEveryPass ==
    lastHook = "sceneChanged"
        => /\ Len(passEvents) = Len(m_frameGraph.passes)
           /\ \A i \in 1 .. Len(m_frameGraph.passes) : passEvents[i] = "sceneChanged"

\* C28: a step of recreateSwapChain, called from beginFrame or from
\* endFrame, leaves the frame index, the frame-started flag, the frame
\* graph's passes and order, the registry and the benchmark frame counter as
\* they are; the step that resizes changes the swapchain, what the passes were
\* told and the resized flag only.
C28_RecreateLeavesFrameStateAlone ==
    [][ /\ pc \in { "recreate", "recreate_resize" }
            => UNCHANGED << m_currentFrameIndex, m_isFrameStarted, m_frameGraph,
                            m_drawBatchRegistry, frameCount, sceneInits,
                            submitted, deletionQueue, samples, files, timings >>
        /\ pc = "recreate_resize" /\ pc' # pc
            => /\ UNCHANGED << fence, cmdState, gpuPending, queries, currentImage,
                               windowExtent, passEvents >>
               /\ swapExtent' = extent
               /\ notified' = extent
               /\ ~wasResized'
      ]_vars

\* endFrame of the second frame has recreated the swapchain: the compiled
\* graph of the CPU-driven build has its eight passes, slot 1 is current.
C28_Witness ==
    /\ pc = "ef_advance"
    /\ callLog # << >>
    /\ Last(callLog) = "resetResizedFlag"
    /\ m_frameGraph.compiled
    /\ Len(m_frameGraph.order) = 8
    /\ notified = swapExtent
    /\ frameCount = 1
    /\ m_currentFrameIndex = 1

====
